---- MODULE Spec2Model ----
(***************************************************************************)
(* Model of the relay server of src/src/tcp_server.rs (run_threads): the   *)
(* UDP thread that owns the pod-state machine, the CAN thread, the worker  *)
(* thread and the channels between them.  A thread's step runs from one   *)
(* read of a socket or channel to the next.                                *)
(***************************************************************************)
EXTENDS Integers, Sequences, FiniteSets, TLC

\* ------------------------------------------------------------------ bounds
\* Telemetry timestamps lie in the seconds 0..MaxTs.
MaxTs == 1
\* A NaiveDateTime is an instant counted in ticks, TicksPerSecond to the
\* second (the type itself resolves nanoseconds).
TicksPerSecond == 2
\* ChangeState messages held by the CAN thread's mpsc channel.
MaxCanQueue == 2
\* Frames held by the worker thread's mpsc channel.
MaxWorkerQueue == 1
\* Consecutive read timeouts followed by Spec (SpecTimeout follows them
\* past max_timer_timeout).
MaxTimeoutCount == 2
\* Command-line vectors have at most MaxArgs strings, the program name
\* included.
MaxArgs == 5

\* --------------------------------------------------------------- constants
\* let max_timer_timeout = 10;
max_timer_timeout == 10

\* --------------------------------------------------------------- PodStates
PodStates ==
    {"Startup", "LowVoltage", "Armed", "AutoPilot", "Braking",
     "EmergencyBrake", "SystemFailure"}

\* PodStates::is_error_state
is_error_state(s) == s \in {"EmergencyBrake", "SystemFailure"}

\* The legal directed transition graph; no self-transitions.
TransitionGraph ==
    {<<"Startup", "LowVoltage">>,
     <<"LowVoltage", "Armed">>,
     <<"Armed", "LowVoltage">>,
     <<"Armed", "AutoPilot">>,
     <<"AutoPilot", "Braking">>,
     <<"Braking", "LowVoltage">>}
    \cup {<<s, "EmergencyBrake">> : s \in PodStates \ {"EmergencyBrake", "SystemFailure"}}

\* PodStates::can_transition_to
can_transition_to(c, r) == <<c, r>> \in TransitionGraph

\* PodStates::to_byte: the single-byte wire encoding
to_byte(s) ==
    CASE s = "Startup" -> 0
      [] s = "LowVoltage" -> 1
      [] s = "Armed" -> 2
      [] s = "AutoPilot" -> 3
      [] s = "Braking" -> 4
      [] s = "EmergencyBrake" -> 5
      [] s = "SystemFailure" -> 6

\* ----------------------------------------------------------------- values
ServerState == {"Startup", "Disconnected", "Connected", "Recovery"}
Errno == {"NoError", "GeneralPodFailure", "InvalidTransitionRequest", "ControllerTimeout"}

\* Errno wire values
errno_byte(e) ==
    CASE e = "NoError" -> 0
      [] e = "GeneralPodFailure" -> 1
      [] e = "InvalidTransitionRequest" -> 2
      [] e = "ControllerTimeout" -> 3

\* NaiveDateTime::timestamp(): the whole seconds of an instant.
timestamp(t) == t \div TicksPerSecond
\* Every instant up to the last second, and the instants on a whole second.
Instants == 0..(MaxTs * TicksPerSecond)
Timestamps == {t \in Instants : timestamp(t) * TicksPerSecond = t}
\* Operator addresses (peer ip, port 8888)
Addrs == {"10.0.0.5:8888", "10.0.0.6:8888"}
\* The pod states the operator requests and the CAN side reports in this model.
InputStates == {"LowVoltage", "Armed", "AutoPilot", "EmergencyBrake"}
\* PodData snapshots: PodData::new() and one snapshot pushed by the aggregator
PodDataValues == {"empty", "snapshot"}

\* enum UDPMessage
UDPMessage ==
    [type : {"ConnectToHost"}, addr : Addrs]
    \cup {[type |-> "StartupComplete"]}
    \cup [type : {"PodStateChanged"}, state : InputStates]
    \cup [type : {"TelemetryDataAvailable"}, data : {"snapshot"}, ts : Timestamps]

\* enum CANMessage
CANMessage == [type : {"ChangeState"}, state : PodStates]

\* What udp_socket.recv yields in one iteration: a read error (timeout), a
\* datagram that from_json_bytes rejects, or a DesktopStateMessage.
RecvResults ==
    {[kind |-> "Err"], [kind |-> "Malformed"]}
    \cup [kind : {"DesktopStateMessage"}, requested_state : InputStates,
          most_recent_timestamp : Timestamps]

\* CAN frames read from the bus in this model: BMS state-change frames
\* (0x00B) with payload ACK, NACK and empty, and a BMS health frame (0x001).
CanFrames ==
    {[id |-> 11, data |-> <<1>>],
     [id |-> 11, data |-> <<0>>],
     [id |-> 11, data |-> <<>>],
     [id |-> 1, data |-> <<0, 0, 0, 0, 0, 0, 0, 0>>]}

\* What socket.read_frame() yields in one iteration of the CAN thread.
ReadResults ==
    {[kind |-> "Timeout"], [kind |-> "Error"]}
    \cup [kind : {"Frame"}, frame : CanFrames]

NoRecv == [kind |-> "None"]
NoFrame == [kind |-> "None"]
NoMessage == [kind |-> "None"]
NoPanic == [kind |-> "None"]
NoRequest == [kind |-> "None"]

VARIABLES
    \* UDP thread locals
    server_state, current_pod_state, next_pod_state, errno, timeout_counter,
    last_received_telemetry_timestamp, current_pod_data, current_telemetry_timestamp,
    udp_peer,        \* the address udp_socket is connected to, or "none"
    udp_pc,          \* "loop": at the top of the loop; "drain": at udpReceiver.try_recv()
    udp_panicked,    \* the UDP thread has panicked and is gone
    udp_panic,       \* what the panic of the UDP thread reports (NoPanic: none)
    udp_log,         \* the channel message the latest iteration printed as
                     \* "Received Message on UDP mpsc channel ..." and dropped
                     \* (NoMessage: none)
    udp_in,          \* what this iteration read from the socket (NoRecv: nothing)
    udp_out,         \* the PodStateMessage the latest finished iteration sent
                     \* (NoMessage: it sent none)
    \* CAN thread locals
    requested_pod_state, bms_state,
    can_in,          \* what the latest CAN iteration read from the bus
    can_out,         \* the frame the latest CAN iteration wrote to the bus
    \* TCP thread
    tcp_in,          \* the peer and request of the latest TCP connection handled
    tcp_reply,       \* what its handler wrote to the stream ("none": nothing)
    tcp_sent,        \* the UDPMessages its handler sent to the UDP thread
    tcp_panicked,    \* the TCP thread has panicked and is gone
    \* frame decoding
    decoded_frame,   \* the frame get_command was last called on
    decoded_command, \* what that call gave
    \* configuration
    config_args,     \* the argument vector Config::from_args was called on
    config,          \* what that call gave: a Config or a panic
    \* channels
    canReceiver,     \* queue of CANMessage to the CAN thread
    workerReceiver   \* queue of WorkerMessage to the worker thread

udpVars == <<server_state, current_pod_state, next_pod_state, errno, timeout_counter,
             last_received_telemetry_timestamp, current_pod_data,
             current_telemetry_timestamp, udp_peer, udp_pc, udp_panicked,
             udp_panic, udp_log, udp_in, udp_out>>
canVars == <<requested_pod_state, bms_state, can_in, can_out>>
tcpVars == <<tcp_in, tcp_reply, tcp_sent, tcp_panicked>>
decodeVars == <<decoded_frame, decoded_command>>
configVars == <<config_args, config>>
vars == <<udpVars, canVars, tcpVars, decodeVars, configVars, canReceiver, workerReceiver>>

\* The UDP thread's locals as one value, threaded through a step.
\* sent: the CANMessages the step has sent; out: the PodStateMessage last sent.
UdpWork ==
    [server_state |-> server_state,
     current_pod_state |-> current_pod_state,
     next_pod_state |-> next_pod_state,
     errno |-> errno,
     timeout_counter |-> timeout_counter,
     last_received_telemetry_timestamp |-> last_received_telemetry_timestamp,
     current_pod_data |-> current_pod_data,
     current_telemetry_timestamp |-> current_telemetry_timestamp,
     udp_peer |-> udp_peer,
     panicked |-> FALSE,
     panic |-> NoPanic,
     log |-> NoMessage,
     sent |-> <<>>,
     out |-> udp_out]

\* Mutant: the errno is set but the session stays as it was.
invalid_transition_keeps_session(w) ==
    [w EXCEPT !.errno = "InvalidTransitionRequest"]

invalid_transition_recognized(w) ==
    [w EXCEPT !.errno = "InvalidTransitionRequest", !.server_state = "Recovery"]

\* Mutant: the echoed timestamp is not recorded.
handle_telemetry_timestamp_dropped(w, ts) == w

handle_telemetry_timestamp(w, ts) ==
    [w EXCEPT !.last_received_telemetry_timestamp = ts]

\* Mutant: next_pod_state is set but nothing is sent to the CAN thread.
trigger_transition_without_send(w, requested_state) ==
    [w EXCEPT !.next_pod_state = requested_state]

trigger_transition_to_new_state(w, requested_state) ==
    [w EXCEPT !.sent = Append(@, [type |-> "ChangeState", state |-> requested_state]),
              !.next_pod_state = requested_state]

\* Mutant: the decision tree without the can_transition_to test.
DecisionTreeAnyTarget(w, m) ==
    IF m.requested_state = w.current_pod_state
    THEN IF w.next_pod_state = w.current_pod_state
         THEN handle_telemetry_timestamp(w, m.most_recent_timestamp)
         ELSE invalid_transition_recognized(w)
    ELSE IF m.requested_state = w.next_pod_state
         THEN handle_telemetry_timestamp(w, m.most_recent_timestamp)
         ELSE IF w.current_pod_state = w.next_pod_state
              THEN handle_telemetry_timestamp(
                       trigger_transition_to_new_state(w, m.requested_state),
                       m.most_recent_timestamp)
              ELSE invalid_transition_recognized(w)

\* Mutant: a request for a new target during a pending transition replaces
\* the pending one.
DecisionTreeRetargets(w, m) ==
    IF m.requested_state = w.current_pod_state
    THEN IF w.next_pod_state = w.current_pod_state
         THEN handle_telemetry_timestamp(w, m.most_recent_timestamp)
         ELSE invalid_transition_recognized(w)
    ELSE IF can_transition_to(w.current_pod_state, m.requested_state)
         THEN IF m.requested_state = w.next_pod_state
              THEN handle_telemetry_timestamp(w, m.most_recent_timestamp)
              ELSE handle_telemetry_timestamp(
                       trigger_transition_to_new_state(w, m.requested_state),
                       m.most_recent_timestamp)
         ELSE invalid_transition_recognized(w)

\* The decision tree applied to a decoded DesktopStateMessage.
DecisionTree(w, m) ==
    IF m.requested_state = w.current_pod_state
    THEN IF w.next_pod_state = w.current_pod_state
         THEN handle_telemetry_timestamp(w, m.most_recent_timestamp)
         ELSE invalid_transition_recognized(w)
    ELSE IF can_transition_to(w.current_pod_state, m.requested_state)
         THEN IF m.requested_state = w.next_pod_state
              THEN handle_telemetry_timestamp(w, m.most_recent_timestamp)
              ELSE IF w.current_pod_state = w.next_pod_state
                   THEN handle_telemetry_timestamp(
                            trigger_transition_to_new_state(w, m.requested_state),
                            m.most_recent_timestamp)
                   ELSE invalid_transition_recognized(w)
         ELSE invalid_transition_recognized(w)

\* if timeout_counter >= max_timer_timeout { /* TODO Enter into Recovery */ }
TimeoutCheck(w) ==
    IF w.timeout_counter >= max_timer_timeout THEN w ELSE w

\* Mutant: the datagram is decoded and decided on in an error state too.
HandleRecvInAnyState(w, rcv) ==
    IF rcv.kind = "Err"
    THEN TimeoutCheck([w EXCEPT !.timeout_counter = @ + 1])
    ELSE IF rcv.kind = "Malformed"
         THEN [w EXCEPT !.panicked = TRUE,
                        !.panic = [kind |-> "FailedToReadDesktopStateMessage"]]
         ELSE [DecisionTree(w, rcv) EXCEPT !.timeout_counter = 0]

\* match udp_socket.recv(&mut socket_buffer)
HandleRecv(w, rcv) ==
    IF rcv.kind = "Err"
    THEN TimeoutCheck([w EXCEPT !.timeout_counter = @ + 1])
    ELSE IF is_error_state(w.current_pod_state)
         THEN w
         ELSE IF rcv.kind = "Malformed"
              THEN [w EXCEPT !.panicked = TRUE,
                             !.panic = [kind |-> "FailedToReadDesktopStateMessage"]]
              ELSE [DecisionTree(w, rcv) EXCEPT !.timeout_counter = 0]

\* Mutant: a PodStateChanged to a state that is no error state clears errno.
HandleInboxMessageClearsErrno(w, m) ==
    CASE m.type = "PodStateChanged" ->
            [w EXCEPT !.errno = IF is_error_state(m.state)
                                THEN "GeneralPodFailure" ELSE "NoError",
                      !.current_pod_state = m.state]
      [] m.type = "TelemetryDataAvailable" ->
            [w EXCEPT !.current_pod_data = m.data,
                      !.current_telemetry_timestamp = m.ts]
      [] OTHER -> [w EXCEPT !.panicked = TRUE,
                            !.panic = [kind |-> "UnExpectedMessage", message |-> m]]

\* One message of the inbox drain in Connected.
HandleInboxMessage(w, m) ==
    CASE m.type = "PodStateChanged" ->
            [w EXCEPT !.errno = IF is_error_state(m.state) THEN "GeneralPodFailure" ELSE @,
                      !.current_pod_state = m.state]
      [] m.type = "TelemetryDataAvailable" ->
            [w EXCEPT !.current_pod_data = m.data,
                      !.current_telemetry_timestamp = m.ts]
      [] OTHER -> [w EXCEPT !.panicked = TRUE,
                            !.panic = [kind |-> "UnExpectedMessage", message |-> m]]

\* The PodStateMessage of this iteration.
PodStateMessage(w) ==
    [kind |-> "PodStateMessage",
     current_state |-> w.current_pod_state,
     next_state |-> w.next_pod_state,
     errno |-> w.errno,
     telemetry_timestamp |-> w.current_telemetry_timestamp,
     telemetry |-> IF timestamp(w.current_telemetry_timestamp)
                          > timestamp(w.last_received_telemetry_timestamp)
                   THEN w.current_pod_data ELSE "absent",
     recovery |-> (w.server_state = "Recovery")]

\* udp_socket.send_pod_state_message(&pod_state_message)
SendPodStateMessage(w) ==
    [w EXCEPT !.out = PodStateMessage(w)]

\* The Disconnected arm on message m; connected: whether
\* udp_socket.connect(addr) succeeds.
DisconnectedArm(w, m, connected) ==
    IF m.type = "ConnectToHost"
    THEN IF connected
         THEN [w EXCEPT !.server_state = "Connected", !.udp_peer = m.addr]
         ELSE w
    ELSE [w EXCEPT !.log = m]

\* The Startup arm on message m.
StartupArm(w, m) ==
    IF m.type = "StartupComplete"
    THEN [w EXCEPT !.server_state = "Disconnected"]
    ELSE [w EXCEPT !.log = m]

\* Mutant: the Recovery arm finishes the recovery.
RecoveryArmCompletes(w) == [w EXCEPT !.server_state = "Disconnected"]

\* ServerState::Recovery => {}
RecoveryArm(w) == w

\* An iteration that ends without udp_socket.send_pod_state_message.
NothingSent(w) == [w EXCEPT !.out = NoMessage]

\* Writes the locals back after a step that read rcv from the socket and
\* goes on at pc.
UdpCommit(w, rcv, pc) ==
    /\ server_state' = w.server_state
    /\ current_pod_state' = w.current_pod_state
    /\ next_pod_state' = w.next_pod_state
    /\ errno' = w.errno
    /\ timeout_counter' = w.timeout_counter
    /\ last_received_telemetry_timestamp' = w.last_received_telemetry_timestamp
    /\ current_pod_data' = w.current_pod_data
    /\ current_telemetry_timestamp' = w.current_telemetry_timestamp
    /\ udp_peer' = w.udp_peer
    /\ udp_panicked' = w.panicked
    /\ udp_panic' = w.panic
    /\ udp_log' = w.log
    /\ udp_pc' = IF w.panicked THEN udp_pc ELSE pc
    /\ udp_in' = rcv
    /\ udp_out' = w.out
    /\ Len(canReceiver \o w.sent) <= MaxCanQueue
    /\ canReceiver' = canReceiver \o w.sent
    /\ UNCHANGED <<canVars, tcpVars, decodeVars, configVars, workerReceiver>>

UdpAt(pc, state) ==
    /\ ~udp_panicked
    /\ udp_pc = pc
    /\ server_state = state

\* Connected: udp_socket.recv and its match, on the receive results rcvs,
\* following the timeout counter up to cap.
UdpRecvOn(rcvs, cap) ==
    /\ UdpAt("loop", "Connected")
    /\ \E rcv \in rcvs :
         /\ rcv.kind = "Err" => timeout_counter < cap
         /\ UdpCommit(HandleRecv(UdpWork, rcv), rcv, "drain")

UdpRecv == UdpRecvOn(RecvResults, MaxTimeoutCount)

\* Connected: udpReceiver.try_recv() yields a message of msgs.
UdpDrainMessageOn(msgs) ==
    /\ ~udp_panicked
    /\ udp_pc = "drain"
    /\ \E m \in msgs :
         UdpCommit(HandleInboxMessage(UdpWork, m), udp_in, "drain")

UdpDrainMessage == UdpDrainMessageOn(UDPMessage)

\* Connected: udpReceiver.try_recv() finds the channel empty; the
\* PodStateMessage is sent and the iteration ends.
UdpSend ==
    /\ ~udp_panicked
    /\ udp_pc = "drain"
    /\ UdpCommit(SendPodStateMessage(UdpWork), udp_in, "loop")

\* ServerState::Disconnected: blocks on the channel for one message of msgs.
UdpDisconnectedOn(msgs) ==
    /\ UdpAt("loop", "Disconnected")
    /\ \E m \in msgs, connected \in BOOLEAN :
         UdpCommit(NothingSent(DisconnectedArm(UdpWork, m, connected)), NoRecv, "loop")

UdpDisconnected == UdpDisconnectedOn(UDPMessage)

\* ServerState::Startup: blocks on the channel for one message of msgs.
UdpStartupOn(msgs) ==
    /\ UdpAt("loop", "Startup")
    /\ \E m \in msgs :
         UdpCommit(NothingSent(StartupArm(UdpWork, m)), NoRecv, "loop")

UdpStartup == UdpStartupOn(UDPMessage)

UdpRecovery ==
    /\ UdpAt("loop", "Recovery")
    /\ UdpCommit(NothingSent(RecoveryArm(UdpWork)), NoRecv, "loop")

\* ------------------------------------------------------------ frame codec
\* AckNack::from(u8): 0 is NACK, any other byte ACK
AckNackFrom(byte) == IF byte = 0 THEN "NACK" ELSE "ACK"

\* get_state_change_ack
get_state_change_ack(data) ==
    IF Len(data) = 0 THEN "UNKNOWN" ELSE AckNackFrom(data[1])

\* parse_first_float indexes data[0..3], parse_second_float data[4..7]; an
\* index past the payload panics.
FloatsPresent(data, count) == Len(data) >= 4 * count

TwoFloatIds == {1, 2, 12, 13, 22, 23, 64, 65}
OneFloatIds == {14, 31, 32, 33, 34, 48, 49, 50}
FaultReportIds == {10, 20}

\* FrameHandler::get_command: the kind of command decoded, or "Panic"
get_command(frame) ==
    CASE frame.id \in TwoFloatIds ->
            IF FloatsPresent(frame.data, 2)
            THEN [cmd |-> "TwoFloats", id |-> frame.id] ELSE [cmd |-> "Panic"]
      [] frame.id \in OneFloatIds ->
            IF FloatsPresent(frame.data, 1)
            THEN [cmd |-> "OneFloat", id |-> frame.id] ELSE [cmd |-> "Panic"]
      [] frame.id \in FaultReportIds -> [cmd |-> "FaultReport", id |-> frame.id]
      [] frame.id = 11 ->
            [cmd |-> "BmsStateChange", ack |-> get_state_change_ack(frame.data)]
      [] frame.id = 21 ->
            [cmd |-> "MotorControllerStateChange", ack |-> get_state_change_ack(frame.data)]
      [] OTHER -> [cmd |-> "Unknown", id |-> frame.id]

\* A payload of len bytes: the first byte is `first`, the others 0.
Payload(len, first) == [i \in 1..len |-> IF i = 1 THEN first ELSE 0]

\* Frames to decode: every id of the table and ids outside it, with every
\* payload length a CAN frame has.
DecodeIds == TwoFloatIds \cup OneFloatIds \cup FaultReportIds \cup {11, 21} \cup {0, 3, 2047}
DecodeFrames ==
    [id : DecodeIds, data : {Payload(len, first) : len \in 0..8, first \in {0, 1}}]

\* A call of get_command on a frame.
DecodeFrame ==
    /\ \E frame \in DecodeFrames :
         /\ decoded_frame' = frame
         /\ decoded_command' = get_command(frame)
    /\ UNCHANGED <<udpVars, canVars, tcpVars, configVars, canReceiver, workerReceiver>>

\* ------------------------------------------------------------ configuration
\* The strings an argument vector is made of.
ArgStrings ==
    {"relay", "-a", "-b", "100.20.20.10:9090", "250.230.210.120:1000", "10.0.0.256:9000", "512"}

\* str::split(':') and str::split('.') on those strings.
SplitColon(text) ==
    CASE text = "100.20.20.10:9090" -> <<"100.20.20.10", "9090">>
      [] text = "250.230.210.120:1000" -> <<"250.230.210.120", "1000">>
      [] text = "10.0.0.256:9000" -> <<"10.0.0.256", "9000">>
      [] OTHER -> <<text>>

SplitDot(text) ==
    CASE text = "100.20.20.10" -> <<"100", "20", "20", "10">>
      [] text = "250.230.210.120" -> <<"250", "230", "210", "120">>
      [] text = "10.0.0.256" -> <<"10", "0", "0", "256">>
      [] OTHER -> <<text>>

\* str::parse of an unsigned integer: its value, or -1 for Err.
ParseUnsigned(text) ==
    CASE text = "0" -> 0
      [] text = "10" -> 10
      [] text = "20" -> 20
      [] text = "100" -> 100
      [] text = "120" -> 120
      [] text = "210" -> 210
      [] text = "230" -> 230
      [] text = "250" -> 250
      [] text = "256" -> 256
      [] text = "512" -> 512
      [] text = "1000" -> 1000
      [] text = "9000" -> 9000
      [] text = "9090" -> 9090
      [] OTHER -> -1

\* parse::<u8>(), parse::<u16>() and parse::<usize>() succeed.
IsU8(text) == ParseUnsigned(text) \in 0..255
IsU16(text) == ParseUnsigned(text) \in 0..65535
IsUsize(text) == ParseUnsigned(text) >= 0

ConfigPanic(message) == [kind |-> "Panic", message |-> message]

\* Config::default()
ConfigDefault ==
    [kind |-> "Config",
     address |-> [ip |-> <<127, 0, 0, 1>>, port |-> 8080],
     buffer_size |-> 256]

\* The "-a" arm of from_args.
SetAddress(cfg, param) ==
    LET host_and_port == SplitColon(param)
        host == SplitDot(host_and_port[1])
    IN  IF Len(host_and_port) # 2
        THEN ConfigPanic("Invalid address Argument, expected form -a <host>:<port>")
        ELSE IF ~IsU16(host_and_port[2])
        THEN ConfigPanic("unwrap on Err")
        ELSE IF Len(host) # 4
        THEN ConfigPanic("Invalid host, expected form ##.##.##.##")
        ELSE IF \E k \in 1..4 : ~IsU8(host[k])
        THEN ConfigPanic("unwrap on Err")
        ELSE [cfg EXCEPT !.address =
                 [ip |-> [k \in 1..4 |-> ParseUnsigned(host[k])],
                  port |-> ParseUnsigned(host_and_port[2])]]

\* The "-b" arm of from_args.
SetBufferSize(cfg, param) ==
    IF IsUsize(param)
    THEN [cfg EXCEPT !.buffer_size = ParseUnsigned(param)]
    ELSE ConfigPanic("unwrap on Err")

\* The while loop of from_args at index i (args[i] of the code is
\* args[i + 1] here).
RECURSIVE FromArgsLoop(_, _, _)
FromArgsLoop(args, i, cfg) ==
    IF cfg.kind = "Panic" \/ ~(i > 1)
    THEN cfg
    ELSE LET param == args[i + 1]
             param_type == args[i]
         IN  FromArgsLoop(args, i - 2,
                 CASE param_type = "-a" -> SetAddress(cfg, param)
                   [] param_type = "-b" -> SetBufferSize(cfg, param)
                   [] OTHER -> cfg)

\* Mutant: only the first pair of the vector is read.
from_args_first_pair(args) ==
    IF Len(args) % 2 = 0
    THEN ConfigPanic("invalid arguments")
    ELSE FromArgsLoop(args, IF Len(args) > 2 THEN 2 ELSE 0, ConfigDefault)

\* Config::from_args
from_args(args) ==
    IF Len(args) % 2 = 0
    THEN ConfigPanic("invalid arguments")
    ELSE FromArgsLoop(args, Len(args) - 1, ConfigDefault)

ArgVectors == UNION {[1..len -> ArgStrings] : len \in 0..MaxArgs}

\* The program builds its configuration, once.
ConfigFromArgs ==
    /\ config = [kind |-> "None"]
    /\ \E args \in ArgVectors :
         /\ config_args' = args
         /\ config' = from_args(args)
    /\ UNCHANGED <<udpVars, canVars, tcpVars, decodeVars, canReceiver, workerReceiver>>

\* -------------------------------------------------------------- CAN thread
\* CANFrame::new(0, &[state.to_byte()], false, false)
PodStateFrame(state) == [kind |-> "PodState", id |-> 0, data |-> <<to_byte(state)>>]

\* socket.set_motor_throttle(1, 1, 100)
ThrottleFrame == [kind |-> "RoboteqThrottle"]

\* if let Ok(message) = canReceiver.try_recv(): the requested state after it
AfterTryRecv(requested, queue) ==
    IF queue = <<>> THEN requested ELSE Head(queue).state

\* Mutant: the throttle frame goes out without looking at bms_state.
OutboundFrameIgnoringBms(requested, bms) ==
    IF requested = "AutoPilot" THEN ThrottleFrame ELSE PodStateFrame(requested)

\* The frame one iteration writes.
OutboundFrame(requested, bms) ==
    IF requested = bms /\ requested = "AutoPilot"
    THEN ThrottleFrame
    ELSE PodStateFrame(requested)

\* The bms_state mirror after the iteration read `response` from the bus.
BmsStateAfterRead(bms, requested, response) == bms

\* One iteration of the CAN thread's loop, reading `response` from the bus.
CanIterationOn(responses) ==
    \E response \in responses :
      /\ response.kind = "Frame" => Len(workerReceiver) < MaxWorkerQueue
      /\ workerReceiver' = IF response.kind = "Frame"
                           THEN Append(workerReceiver,
                                       [type |-> "CanFrameAndTimeStamp", frame |-> response.frame])
                           ELSE workerReceiver
      /\ bms_state' = BmsStateAfterRead(bms_state, requested_pod_state, response)
      /\ requested_pod_state' = AfterTryRecv(requested_pod_state, canReceiver)
      /\ canReceiver' = IF canReceiver = <<>> THEN canReceiver ELSE Tail(canReceiver)
      /\ can_in' = response
      /\ can_out' = OutboundFrame(requested_pod_state', bms_state')
      /\ UNCHANGED <<udpVars, tcpVars, decodeVars, configVars>>

CanIteration == CanIterationOn(ReadResults)

\* ------------------------------------------------------------- TCP thread
\* TCP peers of the acceptor, and what read_all returns for a connection
\* ("@@Failed@@\r\n" stands in for a failed read; "<FF>" is not UTF-8).
TcpPeers == [ip : {"10.0.0.5", "10.0.0.6"}, port : {49152}]
TcpRequests == {"CONNECT\r\n", "DISCONNECT\r\n", "@@Failed@@\r\n", "STATUS\r\n", "<FF>"}

\* intialize_request_parser and strip_line_and_get_value on its table.
ParseRequest(request) ==
    CASE request = "CONNECT\r\n" -> "Connect"
      [] request = "DISCONNECT\r\n" -> "Disconnect"
      [] request = "@@Failed@@\r\n" -> "Unknown"
      [] OTHER -> "InvalidRequest"

\* addr.set_port(port)
set_port(addr, port) == [addr EXCEPT !.port = port]

\* handle_tcp_socket_event on a connection from peer that carries request;
\* written: whether stream.write succeeds.  The result is what the handler
\* wrote, what it sent to the UDP thread and whether it panicked or returned
\* the Err that run_threads unwraps.
handle_tcp_socket_event(peer, request, written) ==
    LET value == ParseRequest(request)
        addr == set_port(peer, 8888)
    IN  IF request = "<FF>"
        THEN [reply |-> "none", sent |-> <<>>, panicked |-> TRUE]
        ELSE CASE value = "Connect" ->
                    [reply |-> IF written THEN "8888" ELSE "none",
                     sent |-> <<>>,
                     panicked |-> ~written]
               [] value = "Disconnect" ->
                    [reply |-> "none", sent |-> <<>>, panicked |-> TRUE]
               [] OTHER ->
                    [reply |-> "none", sent |-> <<>>, panicked |-> FALSE]

\* The acceptor takes one connection and handles it.
TcpConnection ==
    /\ ~tcp_panicked
    /\ \E peer \in TcpPeers, request \in TcpRequests, written \in BOOLEAN :
         LET result == handle_tcp_socket_event(peer, request, written)
         IN  /\ tcp_in' = [kind |-> "Request", peer |-> peer, request |-> request]
             /\ tcp_reply' = result.reply
             /\ tcp_sent' = result.sent
             /\ tcp_panicked' = result.panicked
    /\ UNCHANGED <<udpVars, canVars, decodeVars, configVars, canReceiver, workerReceiver>>

\* One iteration of the worker thread's loop: the message is taken and dropped.
WorkerIteration ==
    /\ workerReceiver # <<>>
    /\ workerReceiver' = Tail(workerReceiver)
    /\ UNCHANGED <<udpVars, canVars, tcpVars, decodeVars, configVars, canReceiver>>

\* ------------------------------------------------------------ specifications
Init ==
    /\ server_state = "Startup"
    /\ current_pod_state = "LowVoltage"
    /\ next_pod_state = "LowVoltage"
    /\ errno = "NoError"
    /\ timeout_counter = 0
    /\ last_received_telemetry_timestamp = 0
    /\ current_pod_data = "empty"
    \* two readings of the clock, the second at most a second later
    /\ current_telemetry_timestamp \in {t \in Timestamps : timestamp(t) <= 1}
    /\ udp_peer = "none"
    /\ udp_pc = "loop"
    /\ udp_panicked = FALSE
    /\ udp_panic = NoPanic
    /\ udp_log = NoMessage
    /\ udp_in = NoRecv
    /\ udp_out = NoMessage
    /\ requested_pod_state = "LowVoltage"
    /\ bms_state = "LowVoltage"
    /\ can_in = NoRecv
    /\ can_out = NoFrame
    /\ tcp_in = NoRequest
    /\ tcp_reply = "none"
    /\ tcp_sent = <<>>
    /\ tcp_panicked = FALSE
    /\ decoded_frame = NoFrame
    /\ decoded_command = [cmd |-> "None"]
    /\ config_args = <<>>
    /\ config = [kind |-> "None"]
    /\ canReceiver = <<>>
    /\ workerReceiver = <<>>

\* The UDP thread, with every input it can meet.
Next ==
    \/ UdpStartup
    \/ UdpDisconnected
    \/ UdpRecv
    \/ UdpDrainMessage
    \/ UdpSend
    \/ UdpRecovery

Spec == Init /\ [][Next]_vars

\* The UDP thread on an operator that goes silent: read timeouts are
\* followed past max_timer_timeout.
SilentRecvResults ==
    {[kind |-> "Err"],
     [kind |-> "DesktopStateMessage", requested_state |-> "LowVoltage",
      most_recent_timestamp |-> 0],
     [kind |-> "DesktopStateMessage", requested_state |-> "Armed",
      most_recent_timestamp |-> 0]}

HandshakeMessages ==
    {[type |-> "StartupComplete"]} \cup [type : {"ConnectToHost"}, addr : Addrs]

UdpRecvSilent == UdpRecvOn(SilentRecvResults, max_timer_timeout + 1)
UdpStartupHandshake == UdpStartupOn(HandshakeMessages)
UdpDisconnectedHandshake == UdpDisconnectedOn(HandshakeMessages)

NextTimeout ==
    \/ UdpStartupHandshake
    \/ UdpDisconnectedHandshake
    \/ UdpRecvSilent
    \/ UdpSend
    \/ UdpRecovery

SpecTimeout == Init /\ [][NextTimeout]_vars

\* The CAN thread and the worker thread beside a UDP thread whose operator
\* sends state requests and whose channel carries PodStateChanged.
RequestRecvResults ==
    [kind : {"DesktopStateMessage"}, requested_state : InputStates,
     most_recent_timestamp : {0}]

PodStateChangedMessages == [type : {"PodStateChanged"}, state : InputStates]

UdpRecvRequest == UdpRecvOn(RequestRecvResults, 0)
UdpDrainPodStateChanged == UdpDrainMessageOn(PodStateChangedMessages)

OneOperatorHandshake ==
    {[type |-> "StartupComplete"], [type |-> "ConnectToHost", addr |-> "10.0.0.5:8888"]}

UdpStartupOneOperator == UdpStartupOn(OneOperatorHandshake)
UdpDisconnectedOneOperator == UdpDisconnectedOn(OneOperatorHandshake)

NextCAN ==
    \/ UdpStartupOneOperator
    \/ UdpDisconnectedOneOperator
    \/ UdpRecvRequest
    \/ UdpDrainPodStateChanged
    \/ UdpSend
    \/ UdpRecovery
    \/ CanIteration
    \/ WorkerIteration

SpecCAN == Init /\ [][NextCAN]_vars

\* The UDP thread on an operator that only echoes telemetry timestamps while
\* the channel carries telemetry; timestamps fall between whole seconds too.
EchoRecvResults ==
    {[kind |-> "Err"]}
    \cup [kind : {"DesktopStateMessage"}, requested_state : {"LowVoltage"},
          most_recent_timestamp : Instants]

TelemetryMessages ==
    [type : {"TelemetryDataAvailable"}, data : {"snapshot"}, ts : Instants]

UdpRecvEcho == UdpRecvOn(EchoRecvResults, 1)
UdpDrainTelemetry == UdpDrainMessageOn(TelemetryMessages)

NextTelemetry ==
    \/ UdpStartupOneOperator
    \/ UdpDisconnectedOneOperator
    \/ UdpRecvEcho
    \/ UdpDrainTelemetry
    \/ UdpSend

SpecTelemetry == Init /\ [][NextTelemetry]_vars

\* The TCP thread beside a UDP thread whose operator sends state requests.
NextTCP ==
    \/ UdpStartupOneOperator
    \/ UdpDisconnectedOneOperator
    \/ UdpRecvRequest
    \/ UdpSend
    \/ UdpRecovery
    \/ TcpConnection

SpecTCP == Init /\ [][NextTCP]_vars

\* Calls of get_command on frames of every kind.
NextDecode == DecodeFrame

SpecDecode == Init /\ [][NextDecode]_vars

\* The call of Config::from_args on every argument vector.
NextConfig == ConfigFromArgs

SpecConfig == Init /\ [][NextConfig]_vars

\* ------------------------------------------------------------------ claims
ChangeState(state) == [type |-> "ChangeState", state |-> state]

\* The step is the receive of a Connected iteration that goes on to the drain.
UdpRecvStep ==
    /\ ~udp_panicked
    /\ udp_pc = "loop"
    /\ server_state = "Connected"
    /\ udp_pc' = "drain"

\* The step ends a Connected iteration by sending its PodStateMessage.
UdpSendStep == udp_pc = "drain" /\ udp_pc' = "loop"

\* The step receives a decoded request while the pod is in no error state.
UdpRequestStep ==
    /\ UdpRecvStep
    /\ udp_in'.kind = "DesktopStateMessage"
    /\ ~is_error_state(current_pod_state)

\* C1: whenever an operator request is accepted as a new transition
\* (next_pod_state is set, a ChangeState is sent), the target is the
\* requested state, it differs from the current pod state c and
\* c.can_transition_to(target) holds at that moment.
C1_AcceptedTransitionIsLegal ==
    [][(next_pod_state' # next_pod_state \/ Len(canReceiver') > Len(canReceiver))
        => /\ UdpRequestStep
           /\ next_pod_state' = udp_in'.requested_state
           /\ canReceiver' = Append(canReceiver, ChangeState(next_pod_state'))
           /\ next_pod_state' # current_pod_state
           /\ can_transition_to(current_pod_state, next_pod_state')]_vars

\* A second transition, Armed -> AutoPilot, has just been accepted.
C1_Witness ==
    /\ udp_pc = "drain"
    /\ current_pod_state = "Armed"
    /\ next_pod_state = "AutoPilot"
    /\ udp_in.kind = "DesktopStateMessage"
    /\ udp_in.requested_state = "AutoPilot"
    /\ canReceiver = <<ChangeState("Armed"), ChangeState("AutoPilot")>>

\* C2 (as claimed): every change of current_pod_state from c to s satisfies
\* c.can_transition_to(s).
C2_EveryChangeFollowsGraph ==
    [][current_pod_state' # current_pod_state
        => can_transition_to(current_pod_state, current_pod_state')]_vars

\* C3 (as claimed, its necessary part): whenever current_pod_state differs
\* from next_pod_state, a ChangeState(next_pod_state) has been sent on the
\* CAN queue.  Under Spec the queue keeps every ChangeState ever sent.
C3_DifferOnlyWhileRequested ==
    current_pod_state # next_pod_state
        => \E i \in 1..Len(canReceiver) : canReceiver[i] = ChangeState(next_pod_state)

\* C4: once the session state is Recovery it stays Recovery, so it never
\* becomes Connected again.
C4_RecoveryIsSticky ==
    [][server_state = "Recovery" => server_state' = "Recovery"]_vars

\* An iteration of the Recovery arm has run.
C4_Witness ==
    /\ server_state = "Recovery"
    /\ udp_pc = "loop"
    /\ udp_in = NoRecv
    /\ udp_out = NoMessage

\* C5 (as claimed): when an iteration ends whose read timeout brought the
\* count of consecutive timeouts to max_timer_timeout, the session is in
\* Recovery with errno ControllerTimeout.
C5_TimeoutsForceRecovery ==
    (udp_pc = "loop" /\ udp_in.kind = "Err" /\ timeout_counter >= max_timer_timeout)
        => /\ server_state = "Recovery"
           /\ errno = "ControllerTimeout"

\* C6 (as claimed): when the previous PodStateMessage reported an error
\* state as current_state, the iteration that follows ends in Recovery with
\* errno GeneralPodFailure.
C6_ErrorStateForcesRecovery ==
    [][(UdpSendStep /\ udp_out.kind = "PodStateMessage"
            /\ is_error_state(udp_out.current_state))
        => /\ server_state' = "Recovery"
           /\ errno' = "GeneralPodFailure"]_vars

\* The requests the decision table calls invalid.
InvalidRequest(c, n, r) ==
    \/ r = c /\ n # c
    \/ r # c /\ ~can_transition_to(c, r)
    \/ r # c /\ n # c /\ r # n

C8_LegalRequestInitiatesTransition ==
    [][(UdpRequestStep
            /\ next_pod_state = current_pod_state
            /\ udp_in'.requested_state # current_pod_state
            /\ can_transition_to(current_pod_state, udp_in'.requested_state))
        => /\ next_pod_state' = udp_in'.requested_state
           /\ current_pod_state' = current_pod_state
           /\ errno' = errno
           /\ server_state' = server_state
           /\ canReceiver' = Append(canReceiver, ChangeState(udp_in'.requested_state))]_vars

\* LowVoltage with Armed requested: the transition has been initiated.
C8_Witness ==
    /\ udp_pc = "drain"
    /\ server_state = "Connected"
    /\ errno = "NoError"
    /\ current_pod_state = "LowVoltage"
    /\ next_pod_state = "Armed"
    /\ udp_in.kind = "DesktopStateMessage"
    /\ udp_in.requested_state = "Armed"
    /\ canReceiver = <<ChangeState("Armed")>>

\* The step is an iteration of the CAN thread that read `frame`.
CanReadStep(frame) ==
    /\ workerReceiver' = Append(workerReceiver,
                                [type |-> "CanFrameAndTimeStamp", frame |-> frame])
    /\ can_in' = [kind |-> "Frame", frame |-> frame]

\* C9 (as claimed): when a transition to n is pending (the session sent
\* ChangeState(n), the CAN thread took it) and the CAN thread reads a BMS
\* state-change frame that decodes to ACK, bms_state becomes n.
C9_AckCommitsPendingState ==
    [][\A frame \in CanFrames :
         (/\ CanReadStep(frame)
          /\ get_command(frame) = [cmd |-> "BmsStateChange", ack |-> "ACK"]
          /\ next_pod_state # current_pod_state
          /\ requested_pod_state = next_pod_state)
         => bms_state' = next_pod_state]_vars

C11_TelemetryIffNewer ==
    (udp_pc = "loop" /\ udp_out.kind = "PodStateMessage")
        => (udp_out.telemetry # "absent"
              <=> current_telemetry_timestamp > last_received_telemetry_timestamp)

\* C12 (as claimed, its first part): while the session is in Recovery, the
\* latest finished iteration of the UDP thread sent a PodStateMessage with
\* recovery = true and the failure errno.
C12_RecoveryKeepsReporting ==
    (server_state = "Recovery" /\ udp_pc = "loop" /\ ~udp_panicked)
        => /\ udp_out.kind = "PodStateMessage"
           /\ udp_out.recovery
           /\ udp_out.errno = errno
           /\ errno # "NoError"

\* The step is the handling of a TCP connection that carries `request`.
TcpStep(request) ==
    /\ tcpVars' # tcpVars
    /\ tcp_in'.kind = "Request"
    /\ tcp_in'.request = request

\* C13 (as claimed, the handler's part): a CONNECT handled while the session
\* is Disconnected sends ConnectToHost((peer_ip, 8888)) to the UDP thread
\* and replies OK 8888.
C13_ConnectIsForwarded ==
    [][(TcpStep("CONNECT\r\n") /\ server_state = "Disconnected")
        => /\ tcp_sent' = <<[type |-> "ConnectToHost",
                             addr |-> set_port(tcp_in'.peer, 8888)]>>
           /\ tcp_reply' = "OK 8888"]_vars

\* The replies the spec gives a refused CONNECT.
ErrorReplies ==
    {"ERROR POD Already Connected to Controller",
     "ERROR Unable to Connect to Pod while recovering. Please Wait for recovery to finish"}

\* C14 (as claimed): a CONNECT handled while the session is Connected or in
\* Recovery is answered with an ERROR line, sends no ConnectToHost and leaves
\* the session state and the bound peer.
C14_ConnectIsRefused ==
    [][(TcpStep("CONNECT\r\n") /\ server_state \in {"Connected", "Recovery"})
        => /\ tcp_reply' \in ErrorReplies
           /\ tcp_sent' = <<>>
           /\ server_state' = server_state
           /\ udp_peer' = udp_peer]_vars

\* C15 (as claimed, the part common to every state): a DISCONNECT is
\* answered with DISCONNECTED and the acceptor goes on serving.
C15_DisconnectIsAnswered ==
    [][TcpStep("DISCONNECT\r\n")
        => /\ tcp_reply' = "DISCONNECTED"
           /\ ~tcp_panicked']_vars

\* C16 (as claimed, its last part): a ConnectToHost delivered to the UDP
\* thread never ends it: the thread has not panicked on such a message.
C16_ConnectToHostNeverFatal ==
    ~(/\ udp_panicked
      /\ udp_panic.kind = "UnExpectedMessage"
      /\ udp_panic.message.type = "ConnectToHost")

\* C17 (as claimed): a datagram received while Connected that is no
\* DesktopStateMessage leaves current and next pod state, errno and session
\* state, sends no ChangeState and leaves the UDP thread running.
C17_MalformedDatagramDropped ==
    [][(/\ udp_pc = "loop" /\ server_state = "Connected" /\ ~udp_panicked
        /\ udpVars' # udpVars
        /\ udp_in'.kind = "Malformed")
        => /\ ~udp_panicked'
           /\ current_pod_state' = current_pod_state
           /\ next_pod_state' = next_pod_state
           /\ errno' = errno
           /\ server_state' = server_state
           /\ canReceiver' = canReceiver]_vars

\* C18 (as claimed): get_command returns for every frame: no call panics,
\* an id outside the table gives Unknown(id), and an empty payload on
\* 0x00B or 0x015 gives AckNack UNKNOWN.
C18_DecodingIsTotal ==
    decoded_frame # NoFrame
        => /\ decoded_command.cmd # "Panic"
           /\ decoded_frame.id \in {0, 3, 2047}
                => decoded_command = [cmd |-> "Unknown", id |-> decoded_frame.id]
           /\ (decoded_frame.id \in {11, 21} /\ decoded_frame.data = <<>>)
                => decoded_command.ack = "UNKNOWN"

\* C19 (as claimed): every successful receive while Connected resets
\* timeout_counter to 0, whatever the current pod state.
C19_ReceiveResetsCounter ==
    [][(UdpRecvStep /\ udp_in'.kind # "Err") => timeout_counter' = 0]_vars

\* C20 (amended): while Connected with c not an error state, a request r
\* with (r = c and n = c) or (r # c, c.can_transition_to(r) and r = n)
\* leaves current and next pod state, errno and session state, sends no
\* ChangeState and sets last_received_telemetry_timestamp to the request's
\* most_recent_timestamp.
C20_HeartbeatAccepted ==
    [][(/\ UdpRequestStep
        /\ \/ /\ udp_in'.requested_state = current_pod_state
              /\ next_pod_state = current_pod_state
           \/ /\ udp_in'.requested_state # current_pod_state
              /\ can_transition_to(current_pod_state, udp_in'.requested_state)
              /\ udp_in'.requested_state = next_pod_state)
        => /\ current_pod_state' = current_pod_state
           /\ next_pod_state' = next_pod_state
           /\ errno' = errno
           /\ server_state' = server_state
           /\ canReceiver' = canReceiver
           /\ last_received_telemetry_timestamp' = udp_in'.most_recent_timestamp]_vars

\* A heartbeat during the pending transition LowVoltage -> Armed: an earlier
\* message already reported next_state Armed, and the echoed timestamp of
\* this request has been recorded.
C20_Witness ==
    /\ udp_pc = "drain"
    /\ server_state = "Connected"
    /\ current_pod_state = "LowVoltage"
    /\ next_pod_state = "Armed"
    /\ udp_out.kind = "PodStateMessage"
    /\ udp_out.next_state = "Armed"
    /\ udp_in.kind = "DesktopStateMessage"
    /\ udp_in.requested_state = "Armed"
    /\ udp_in.most_recent_timestamp > 0
    /\ last_received_telemetry_timestamp = udp_in.most_recent_timestamp

\* C20 (as claimed): a request r with (r = c and n = c) or (r # c and
\* r = n) is accepted as a heartbeat.
C20_PendingTargetIsHeartbeat ==
    [][(/\ UdpRequestStep
        /\ \/ /\ udp_in'.requested_state = current_pod_state
              /\ next_pod_state = current_pod_state
           \/ /\ udp_in'.requested_state # current_pod_state
              /\ udp_in'.requested_state = next_pod_state)
        => /\ current_pod_state' = current_pod_state
           /\ next_pod_state' = next_pod_state
           /\ errno' = errno
           /\ server_state' = server_state
           /\ canReceiver' = canReceiver
           /\ last_received_telemetry_timestamp' = udp_in'.most_recent_timestamp]_vars

\* The flag/value pairs after the program name.
ArgPairs(args) == 1..((Len(args) - 1) \div 2)
ArgFlag(args, k) == args[2 * k]
ArgValue(args, k) == args[2 * k + 1]

\* The address each well-formed -a value stands for.
ExpectedAddress(text) ==
    CASE text = "100.20.20.10:9090" -> [ip |-> <<100, 20, 20, 10>>, port |-> 9090]
      [] text = "250.230.210.120:1000" -> [ip |-> <<250, 230, 210, 120>>, port |-> 1000]

\* Odd length, and every pair is -a with an address or -b with a size, each
\* flag at most once.
ProperlyPaired(args) ==
    /\ Len(args) % 2 = 1
    /\ \A k \in ArgPairs(args) :
          \/ /\ ArgFlag(args, k) = "-a"
             /\ ArgValue(args, k) \in {"100.20.20.10:9090", "250.230.210.120:1000"}
          \/ /\ ArgFlag(args, k) = "-b"
             /\ ArgValue(args, k) = "512"
    /\ \A j, k \in ArgPairs(args) : j # k => ArgFlag(args, j) # ArgFlag(args, k)

\* C21: on a properly paired vector from_args gives the address of the -a
\* value and the buffer size of the -b value, in either order of the pairs,
\* and the defaults 127.0.0.1:8080 and 256 for an absent flag; a vector
\* with an unpaired argument gives no Config.
C21_FromArgsReadsPairs ==
    config.kind # "None"
        => /\ Len(config_args) % 2 = 0 => config.kind = "Panic"
           /\ ProperlyPaired(config_args)
                => /\ config.kind = "Config"
                   /\ \A k \in ArgPairs(config_args) :
                         /\ ArgFlag(config_args, k) = "-a"
                              => config.address = ExpectedAddress(ArgValue(config_args, k))
                         /\ ArgFlag(config_args, k) = "-b"
                              => config.buffer_size = 512
                   /\ (\A k \in ArgPairs(config_args) : ArgFlag(config_args, k) # "-a")
                         => config.address = [ip |-> <<127, 0, 0, 1>>, port |-> 8080]
                   /\ (\A k \in ArgPairs(config_args) : ArgFlag(config_args, k) # "-b")
                         => config.buffer_size = 256

\* -b before -a: both values have been read.
C21_Witness ==
    /\ config_args = <<"relay", "-b", "512", "-a", "250.230.210.120:1000">>
    /\ config = [kind |-> "Config",
                 address |-> [ip |-> <<250, 230, 210, 120>>, port |-> 1000],
                 buffer_size |-> 512]

C23_CanDrainTakesAll ==
    [][Len(canReceiver') < Len(canReceiver)
        => /\ canReceiver' = <<>>
           /\ requested_pod_state' = canReceiver[Len(canReceiver)].state
           /\ can_out'.kind = "PodState"
                => can_out'.data = <<to_byte(canReceiver[Len(canReceiver)].state)>>]_vars

\* C24 (as claimed, its last part): no PodStateChanged(s) is taken from the
\* channel and dropped: a PodStateChanged the latest iteration took has been
\* applied to current_pod_state.
C24_PodStateChangedNeverDropped ==
    udp_log # NoMessage
        => (udp_log.type = "PodStateChanged" => current_pod_state = udp_log.state)

\* C25: a PodStateMessage with recovery = true carries an errno other than
\* NoError, and errno, once it is not NoError, never becomes NoError again.
C25_ErrnoNeverCleared ==
    [][/\ errno # "NoError" => errno' # "NoError"
       /\ (udp_out'.kind = "PodStateMessage" /\ udp_out'.recovery)
          => udp_out'.errno # "NoError"]_vars

\* A message with recovery = true whose errno went from
\* InvalidTransitionRequest to GeneralPodFailure, the pod having then left
\* the error state again.
C25_Witness ==
    /\ udp_pc = "loop"
    /\ server_state = "Recovery"
    /\ udp_out.kind = "PodStateMessage"
    /\ udp_out.recovery
    /\ udp_out.errno = "GeneralPodFailure"
    /\ udp_out.current_state = "Armed"

\* C26: next_pod_state is modified only by a request received while
\* Connected with next_pod_state = current_pod_state that is a legal
\* transition from current_pod_state; while current_pod_state differs from
\* next_pod_state, next_pod_state keeps its value and no ChangeState is sent.
C26_PendingTargetIsKept ==
    [][/\ next_pod_state' # next_pod_state
          => /\ UdpRequestStep
             /\ next_pod_state = current_pod_state
             /\ udp_in'.requested_state # current_pod_state
             /\ can_transition_to(current_pod_state, udp_in'.requested_state)
             /\ next_pod_state' = udp_in'.requested_state
       /\ current_pod_state # next_pod_state
          => /\ next_pod_state' = next_pod_state
             /\ canReceiver' = canReceiver]_vars

\* AutoPilot was pending when the pod fell back from Armed to LowVoltage; a
\* request for Armed then met Recovery and the pending AutoPilot is kept.
C26_Witness ==
    /\ udp_pc = "drain"
    /\ server_state = "Recovery"
    /\ current_pod_state = "LowVoltage"
    /\ next_pod_state = "AutoPilot"
    /\ udp_in.kind = "DesktopStateMessage"
    /\ udp_in.requested_state = "Armed"
    /\ canReceiver = <<ChangeState("Armed"), ChangeState("AutoPilot")>>
====
